---- MODULE Spec2Model ----
(***************************************************************************)
(* Real-time notification broker of DefiniScope: the two connection        *)
(* registries (core WebSocketManager, api ConnectionManager), the two      *)
(* families of WebSocket endpoint handlers, the Redis publisher with its   *)
(* replay buffer, and the Redis pub/sub bridge.                            *)
(*                                                                         *)
(* A state of the model is a point where the asyncio event loop can run    *)
(* another task: one action is the code between two suspension points.     *)
(* An awaited coroutine that never suspends (WebSocketManager.subscribe,   *)
(* an uncontended asyncio.Lock) is part of the step that calls it.         *)
(***************************************************************************)
EXTENDS Integers, Sequences, FiniteSets, TLC

\* ---------------------------------------------------------------- bounds
NConns == 2
NRes == 1
NUsers == 2
MaxEvents == 1
MaxPings == 1
NWorkers == 2
MaxFanEvents == 2
MaxPubEvents == 12
MaxBridgeEvents == 3
MaxTime == 70
MaxHeaderWords == 3
NTasks == 2
Prefilled == 9

\* ------------------------------------------------------ program constants
\* zremrangebyrank(key, 0, -11) keeps the 10 newest members
Retention == 10
WS_1008_POLICY_VIOLATION == 1008
timeout_seconds == 60
SweepInterval == 5
WS_1000_NORMAL_CLOSURE == 1000

Conns == 1..NConns
Res == 1..NRes
Users == 1..NUsers
Workers == 1..NWorkers
None == 0
Classes == {"file", "query"}
Endpoints == {"cm", "ws"}

\* ---------------------------------------------------------------- dicts
EmptyDict == [x \in {} |-> {}]
Put(d, k, v) == [x \in (DOMAIN d) \cup {k} |-> IF x = k THEN v ELSE d[x]]
Pop(d, k) == [x \in (DOMAIN d) \ {k} |-> d[x]]
Get(d, k, dflt) == IF k \in DOMAIN d THEN d[k] ELSE dflt
\* s.discard(k) on the set stored under key t, then "if not d[t]: d.pop(t)"
DiscardAndPrune_KeepsEmpty(d, t, k) ==
    IF t \notin DOMAIN d THEN d ELSE Put(d, t, d[t] \ {k})
DiscardAndPrune(d, t, k) ==
    IF t \notin DOMAIN d THEN d
    ELSE IF d[t] \ {k} = {} THEN Pop(d, t) ELSE Put(d, t, d[t] \ {k})
\* d.setdefault(t, set()).add(k)
AddTo(d, t, k) == Put(d, t, Get(d, t, {}) \cup {k})

\* --------------------------------------------------------------- topics
\* "file_processing:<uuid>" / "query_processing:<uuid>"
Topic(cls, r) == [prefix |-> cls \o "_processing", id |-> r]
Topics == {Topic(cls, r) : cls \in Classes, r \in Res}
\* "file_updates:<uuid>" / "query_updates:<uuid>"
Channel(cls, r) == [prefix |-> cls \o "_updates", id |-> r]
\* "recent_updates:file:<uuid>" / "recent_updates:query:<uuid>"
RecentKey(cls, r) == <<cls, r>>
RecentKeys == {RecentKey(cls, r) : cls \in Classes, r \in Res}
NoTopic == [prefix |-> "none", id |-> None]

VARIABLES
    \* core/websocket_manager.py WebSocketManager
    active_connections, user_connections, topic_subscribers,
    connection_to_user, connection_topics,
    \* api/websockets/manager.py ConnectionManager
    file_connections, query_connections, cm_user_connections, connection_info,
    \* an exception escaped a registry call
    raised,
    \* one client connection and its handler
    req, pc, sock, accepted, closeCode, user, updates, frames, eventsBefore, pings,
    \* Redis: replay sorted sets, pub/sub messages pending for this process,
    \* and the order in which Redis executed the zadd and publish commands
    recent, bus, appended, published,
    \* worker running publish_file_update / publish_query_update
    wpc, wmsg, nextEvent,
    \* the listener task and the send_to_topic call it is in; the connection
    \* whose send_text it awaits; whether its bus connection is up; the bus
    \* messages it consumed without handing them on
    bpc, bmsg, bsubs, handled, bwait, busUp, dropped,
    \* a ConnectionManager.broadcast_*_update call in flight
    cbpc, cbmsg, cbsubs, cbdisc, ncast,
    \* HeartbeatManager: the clock, last_activity, the check_timeouts task
    \* and when its sleep ends, and when each connection's last inbound
    \* frame arrived
    now, last_activity, hpc, wake, quietSince,
    \* the opening handshake get_token_from_websocket reads, and what it
    \* returned
    handshake, token,
    \* ConnectionManager.lock: the call that holds it, and the calls of
    \* ConnectionManager in progress
    lock, ltask,
    \* the WebSocketManager method that returned last, called directly, and
    \* what it returned
    returned

wsVars == <<active_connections, user_connections, topic_subscribers,
            connection_to_user, connection_topics>>
cmVars == <<file_connections, query_connections, cm_user_connections, connection_info>>
clientVars == <<req, pc, sock, accepted, closeCode, user, updates, frames,
                eventsBefore, pings>>
redisVars == <<recent, bus, appended, published>>
workerVars == <<wpc, wmsg, nextEvent>>
bridgeVars == <<bpc, bmsg, bsubs, handled, bwait, busUp, dropped>>
castVars == <<cbpc, cbmsg, cbsubs, cbdisc, ncast>>
hbVars == <<now, last_activity, hpc, wake, quietSince>>
tokVars == <<handshake, token>>
lockVars == <<lock, ltask>>
callVars == <<returned>>
vars == <<wsVars, cmVars, raised, clientVars, redisVars, workerVars,
          bridgeVars, castVars, hbVars, tokVars, lockVars, callVars>>

\* ------------------------------------------------------ WebSocketManager
WsReg == [ac |-> active_connections, uc |-> user_connections,
          ts |-> topic_subscribers, cu |-> connection_to_user,
          ct |-> connection_topics]
SetWsReg(R) ==
    /\ active_connections' = R.ac
    /\ user_connections' = R.uc
    /\ topic_subscribers' = R.ts
    /\ connection_to_user' = R.cu
    /\ connection_topics' = R.ct

\* WebSocketManager.connect after websocket.accept() has returned
WsConnect(R, c, u) ==
    [ac |-> R.ac \cup {c},
     uc |-> IF u # None THEN AddTo(R.uc, u, c) ELSE R.uc,
     ts |-> R.ts,
     cu |-> IF u # None THEN Put(R.cu, c, u) ELSE R.cu,
     ct |-> Put(R.ct, c, {})]

RECURSIVE DiscardFromTopics(_, _, _)
DiscardFromTopics(ts, topics, c) ==
    IF topics = {} THEN ts
    ELSE LET t == CHOOSE x \in topics : TRUE
         IN DiscardFromTopics(DiscardAndPrune(ts, t, c), topics \ {t}, c)

\* WebSocketManager.disconnect
WsDisconnect_KeepsUserOf(R, c) ==
    LET u == Get(R.cu, c, None)
    IN [ac |-> R.ac \ {c},
        uc |-> IF u # None THEN DiscardAndPrune(R.uc, u, c) ELSE R.uc,
        ts |-> DiscardFromTopics(R.ts, Get(R.ct, c, {}), c),
        cu |-> R.cu,
        ct |-> Pop(R.ct, c)]
WsDisconnect(R, c) ==
    LET u == Get(R.cu, c, None)
    IN [ac |-> R.ac \ {c},
        uc |-> IF u # None THEN DiscardAndPrune(R.uc, u, c) ELSE R.uc,
        ts |-> DiscardFromTopics(R.ts, Get(R.ct, c, {}), c),
        cu |-> Pop(R.cu, c),
        ct |-> Pop(R.ct, c)]

\* WebSocketManager.subscribe; connection_topics[c] raises KeyError when absent
WsSubscribeRaises(R, c) == c \in R.ac /\ c \notin DOMAIN R.ct
WsSubscribe_Unchecked(R, c, t) ==
    [R EXCEPT !.ts = AddTo(R.ts, t, c), !.ct = Put(R.ct, c, Get(R.ct, c, {}) \cup {t})]
WsSubscribe(R, c, t) ==
    IF c \notin R.ac \/ WsSubscribeRaises(R, c) THEN R
    ELSE [R EXCEPT !.ts = AddTo(R.ts, t, c), !.ct = Put(R.ct, c, R.ct[c] \cup {t})]

\* WebSocketManager.unsubscribe
WsUnsubscribe_NoTopicSet(R, c, t) ==
    IF c \notin R.ac THEN R
    ELSE [R EXCEPT !.ts = DiscardAndPrune(R.ts, t, c)]
WsUnsubscribe(R, c, t) ==
    IF c \notin R.ac THEN R
    ELSE [R EXCEPT !.ts = DiscardAndPrune(R.ts, t, c),
                   !.ct = IF c \in DOMAIN R.ct THEN Put(R.ct, c, R.ct[c] \ {t})
                          ELSE R.ct]

\* ----------------------------------------------------- ConnectionManager
CmReg == [fc |-> file_connections, qc |-> query_connections,
          uc |-> cm_user_connections, ci |-> connection_info]
SetCmReg(R) ==
    /\ file_connections' = R.fc
    /\ query_connections' = R.qc
    /\ cm_user_connections' = R.uc
    /\ connection_info' = R.ci

\* ConnectionManager.connect_file / connect_query, the part under the lock
CmConnect(R, w, cls, r, u) ==
    [fc |-> IF cls = "file" THEN AddTo(R.fc, r, w) ELSE R.fc,
     qc |-> IF cls = "query" THEN AddTo(R.qc, r, w) ELSE R.qc,
     uc |-> AddTo(R.uc, u, w),
     ci |-> Put(R.ci, w, [type |-> cls, resource_uuid |-> r, user_uuid |-> u])]

\* ConnectionManager.disconnect: the statements that raise KeyError
CmDisconnectRaises(R, w) ==
    IF w \notin DOMAIN R.ci THEN FALSE
    ELSE w \notin DOMAIN R.ci      \* del self.connection_info[websocket]
\* ConnectionManager.disconnect, the part under the lock
CmDisconnect_KeepsUserIndex(R, w) ==
    IF w \notin DOMAIN R.ci THEN R
    ELSE LET info == R.ci[w]
         IN [fc |-> IF info.type = "file"
                    THEN DiscardAndPrune(R.fc, info.resource_uuid, w) ELSE R.fc,
             qc |-> IF info.type = "query"
                    THEN DiscardAndPrune(R.qc, info.resource_uuid, w) ELSE R.qc,
             uc |-> R.uc,
             ci |-> Pop(R.ci, w)]
CmDisconnect(R, w) ==
    IF w \notin DOMAIN R.ci THEN R
    ELSE LET info == R.ci[w]
         IN [fc |-> IF info.type = "file"
                    THEN DiscardAndPrune(R.fc, info.resource_uuid, w) ELSE R.fc,
             qc |-> IF info.type = "query"
                    THEN DiscardAndPrune(R.qc, info.resource_uuid, w) ELSE R.qc,
             uc |-> DiscardAndPrune(R.uc, info.user_uuid, w),
             ci |-> Pop(R.ci, w)]

\* ------------------------------------------------------------ the wire
Frame(kind, ev, topic) == [kind |-> kind, ev |-> ev, topic |-> topic]
WelcomeFrame == Frame("connection_established", None, NoTopic)
ErrorFrame == Frame("error", None, NoTopic)
PongFrame == Frame("pong", None, NoTopic)
StatusFrame(t) == Frame("status", None, t)
Range(s) == {s[i] : i \in 1..Len(s)}

\* ------------------------------------------------- identity collaborator
NoToken == [kind |-> "none", sub |-> None]
Tokens == {NoToken} \cup {[kind |-> "jwt", sub |-> u] : u \in Users}
\* decode_jwt_token / decode_access_token: the "sub" of a valid token
TokenSub(tok) == IF tok.kind = "jwt" THEN tok.sub ELSE None
\* the files and queries rows: every resource belongs to the first user
Owner(cls, r) == 1
\* authenticate_websocket: the user, or None with an error message
authenticate_websocket(tok) == TokenSub(tok)
\* verify_file_access / verify_query_access
verify_access_Always(cls, r, u) == TRUE
verify_access(cls, r, u) == Owner(cls, r) = u

NoMsg == [cls |-> "file", res |-> 1, ev |-> None]
NoBusMsg == [topic |-> NoTopic, ev |-> None]

\* ------------------------------------------------------------------ Init
\* a text made of words, or the absence of one (None in the code)
Absent == [present |-> FALSE, s |-> <<>>]
Text(s) == [present |-> TRUE, s |-> s]
\* bool(x) of an Optional[str]
Truthy(x) == x.present /\ x.s # <<>>
NoHandshake == [query |-> Absent, cookie |-> Absent, authorization |-> Absent]
\* what authenticate_websocket has made of the handshake
NotRead == [state |-> "not_read", s |-> <<>>]
\* the calls of ConnectionManager that may be in progress at once
Tasks == 1..NTasks
IdleTask == [pc |-> "idle", kind |-> "none", op |-> "none", c |-> None,
             subs |-> {}, disc |-> {}]
\* no WebSocketManager method has returned yet
NoCall == [op |-> "none", ok |-> FALSE, count |-> 0]
\* asyncio.Lock(): not locked, nobody waiting
NoLock == [holder |-> None, waiters |-> <<>>]

\* nothing connected and no task running
InitQuiet ==
    /\ active_connections = {}
    /\ user_connections = EmptyDict
    /\ topic_subscribers = EmptyDict
    /\ connection_to_user = EmptyDict
    /\ connection_topics = EmptyDict
    /\ file_connections = EmptyDict
    /\ query_connections = EmptyDict
    /\ cm_user_connections = EmptyDict
    /\ connection_info = EmptyDict
    /\ raised = FALSE
    /\ req = [c \in Conns |-> [ep |-> "cm", cls |-> "file", res |-> 1, tok |-> NoToken]]
    /\ pc = [c \in Conns |-> "idle"]
    /\ sock = [c \in Conns |-> "none"]
    /\ accepted = [c \in Conns |-> FALSE]
    /\ closeCode = [c \in Conns |-> None]
    /\ user = [c \in Conns |-> None]
    /\ updates = [c \in Conns |-> <<>>]
    /\ frames = [c \in Conns |-> <<>>]
    /\ eventsBefore = [c \in Conns |-> {}]
    /\ pings = 0
    /\ bus = <<>>
    /\ wpc = [w \in Workers |-> "idle"]
    /\ wmsg = [w \in Workers |-> NoMsg]
    /\ bpc = "starting"
    /\ bmsg = NoBusMsg
    /\ bsubs = {}
    /\ handled = {}
    /\ bwait = None
    /\ busUp = FALSE
    /\ dropped = {}
    /\ cbpc = "idle"
    /\ cbmsg = NoMsg
    /\ ncast = 0
    /\ cbsubs = {}
    /\ cbdisc = {}
    /\ now = 0
    /\ last_activity = EmptyDict
    /\ hpc = "off"
    /\ wake = 0
    /\ quietSince = [c \in Conns |-> 0]
    /\ lock = NoLock
    /\ ltask = [t \in Tasks |-> IdleTask]
    /\ returned = NoCall

\* a Redis without any event
Init ==
    /\ InitQuiet
    /\ recent = [k \in RecentKeys |-> <<>>]
    /\ appended = [k \in RecentKeys |-> <<>>]
    /\ published = <<>>
    /\ nextEvent = 1
    /\ handshake = NoHandshake
    /\ token = NotRead

\* ------------------------------------- WebSocketManager called directly
notMgr == <<cmVars, clientVars, redisVars, workerVars, bridgeVars, castVars>>

MgrConnect(c, u) ==
    /\ c \notin active_connections
    /\ SetWsReg(WsConnect(WsReg, c, u))
    /\ UNCHANGED <<raised, notMgr>>
    /\ UNCHANGED <<hbVars, tokVars, lockVars, callVars>>

MgrSubscribe(c, t) ==
    /\ SetWsReg(WsSubscribe(WsReg, c, t))
    /\ raised' = (raised \/ WsSubscribeRaises(WsReg, c))
    /\ UNCHANGED notMgr
    /\ UNCHANGED <<hbVars, tokVars, lockVars, callVars>>

MgrUnsubscribe(c, t) ==
    /\ SetWsReg(WsUnsubscribe(WsReg, c, t))
    /\ UNCHANGED <<raised, notMgr>>
    /\ UNCHANGED <<hbVars, tokVars, lockVars, callVars>>

MgrDisconnect(c) ==
    /\ SetWsReg(WsDisconnect(WsReg, c))
    /\ UNCHANGED <<raised, notMgr>>
    /\ UNCHANGED <<hbVars, tokVars, lockVars, callVars>>

\* send_message whose websocket.send_text raises: _handle_connection_error
MgrSendFails(c) ==
    /\ c \in active_connections
    /\ SetWsReg(WsDisconnect(WsReg, c))
    /\ UNCHANGED <<raised, notMgr>>
    /\ UNCHANGED <<hbVars, tokVars, lockVars, callVars>>

NextMgr ==
    \/ \E c \in Conns, u \in Users \cup {None} : MgrConnect(c, u)
    \/ \E c \in Conns, t \in Topics : MgrSubscribe(c, t)
    \/ \E c \in Conns, t \in Topics : MgrUnsubscribe(c, t)
    \/ \E c \in Conns : MgrDisconnect(c)
    \/ \E c \in Conns : MgrSendFails(c)

SpecMgr == Init /\ [][NextMgr]_vars

\* C1: in WebSocketManager, connection c is in topic_subscribers[t] if and
\* only if t is in connection_topics[c], for every connection and topic, at
\* every point where another task can run.
C1_SubscriptionConsistent ==
    \A c \in Conns, t \in Topics :
        (t \in DOMAIN topic_subscribers /\ c \in topic_subscribers[t])
            <=> (c \in DOMAIN connection_topics /\ t \in connection_topics[c])

\* a connection is subscribed while another one has unsubscribed or been
\* removed from a topic they shared, after a disconnect
C1_Witness ==
    \E c \in Conns, d \in Conns, t \in Topics :
        /\ c # d
        /\ t \in DOMAIN topic_subscribers /\ c \in topic_subscribers[t]
        /\ d \in active_connections /\ t \notin connection_topics[d]
        /\ \E t2 \in Topics : t2 \in connection_topics[d]

\* ------------------------------------------- client and its environment
notClient == <<wsVars, cmVars, raised, redisVars, workerVars,
               bridgeVars, castVars>>
Goto(c, l) == pc' = [pc EXCEPT ![c] = l]
Sent(c, f) == frames' = [frames EXCEPT ![c] = Append(@, f)]
MyTopic(c) == Topic(req[c].cls, req[c].res)
MyKey(c) == RecentKey(req[c].cls, req[c].res)

\* a client opens a transport connection to one of the two routers
ClientConnect(c, ep, cls, r, tok) ==
    /\ pc[c] = "idle"
    /\ \A d \in Conns : d < c => pc[d] # "idle"
    /\ req' = [req EXCEPT ![c] = [ep |-> ep, cls |-> cls, res |-> r, tok |-> tok]]
    /\ sock' = [sock EXCEPT ![c] = "open"]
    /\ Goto(c, IF ep = "cm" THEN "auth" ELSE "verify")
    /\ UNCHANGED <<accepted, closeCode, user, updates, frames, eventsBefore, pings,
                   notClient>>
    /\ UNCHANGED <<hbVars, tokVars, lockVars, callVars>>

\* the client closes, or the transport breaks
ClientGone(c) ==
    /\ sock[c] \in {"open", "stalled"}
    /\ pc[c] # "done"
    /\ sock' = [sock EXCEPT ![c] = "dead"]
    /\ UNCHANGED <<req, pc, accepted, closeCode, user, updates, frames, eventsBefore,
                   pings, notClient>>
    /\ UNCHANGED <<hbVars, tokVars, lockVars, callVars>>

\* the client stops reading: writes to it no longer complete
ClientStall(c) ==
    /\ pc[c] = "loop"
    /\ sock[c] = "open"
    /\ sock' = [sock EXCEPT ![c] = "stalled"]
    /\ UNCHANGED <<req, pc, accepted, closeCode, user, updates, frames, eventsBefore,
                   pings, notClient>>
    /\ UNCHANGED <<hbVars, tokVars, lockVars, callVars>>

\* ---------------- api/websockets/endpoints/processing.py and chat.py
\* authenticate_websocket(websocket)
A_Auth(c) ==
    /\ pc[c] = "auth"
    /\ user' = [user EXCEPT ![c] = authenticate_websocket(req[c].tok)]
    /\ Goto(c, IF user'[c] = None THEN "reject_accept" ELSE "authz")
    /\ UNCHANGED <<req, sock, accepted, closeCode, updates, frames, eventsBefore,
                   pings, notClient>>
    /\ UNCHANGED <<hbVars, tokVars, lockVars, callVars>>

\* verify_file_access / verify_query_access
A_Authz(c) ==
    /\ pc[c] = "authz"
    /\ Goto(c, IF verify_access(req[c].cls, req[c].res, user[c])
               THEN "accept" ELSE "reject_accept")
    /\ UNCHANGED <<req, sock, accepted, closeCode, user, updates, frames,
                   eventsBefore, pings, notClient>>
    /\ UNCHANGED <<hbVars, tokVars, lockVars, callVars>>

\* the failure branches: await websocket.accept()
A_RejectAccept(c) ==
    /\ pc[c] = "reject_accept"
    /\ IF sock[c] = "open"
       THEN accepted' = [accepted EXCEPT ![c] = TRUE] /\ Goto(c, "reject_close")
       ELSE UNCHANGED accepted /\ Goto(c, "done")
    /\ UNCHANGED <<req, sock, closeCode, user, updates, frames, eventsBefore, pings,
                   notClient>>
    /\ UNCHANGED <<hbVars, tokVars, lockVars, callVars>>

\* close_with_error: an error frame, then close(code=1008); errors are ignored
A_RejectClose(c) ==
    /\ pc[c] = "reject_close"
    /\ IF sock[c] = "open"
       THEN /\ Sent(c, ErrorFrame)
            /\ closeCode' = [closeCode EXCEPT ![c] = WS_1008_POLICY_VIOLATION]
            /\ sock' = [sock EXCEPT ![c] = "closed"]
       ELSE UNCHANGED <<frames, closeCode, sock>>
    /\ Goto(c, "done")
    /\ UNCHANGED <<req, accepted, user, updates, eventsBefore, pings, notClient>>
    /\ UNCHANGED <<hbVars, tokVars, lockVars, callVars>>

\* manager.connect_file / connect_query: await websocket.accept()
A_Accept(c) ==
    /\ pc[c] = "accept"
    /\ req[c].ep = "cm"
    /\ IF sock[c] = "open"
       THEN accepted' = [accepted EXCEPT ![c] = TRUE] /\ Goto(c, "register")
       ELSE UNCHANGED accepted /\ Goto(c, "done")
    /\ UNCHANGED <<req, sock, closeCode, user, updates, frames, eventsBefore, pings,
                   notClient>>
    /\ UNCHANGED <<hbVars, tokVars, lockVars, callVars>>

\* connect_file under the lock, then the connection_established frame, which
\* is sent outside any try block
A_Register_NoWelcome(c) ==
    /\ pc[c] = "register"
    /\ req[c].ep = "cm"
    /\ SetCmReg(CmConnect(CmReg, c, req[c].cls, req[c].res, user[c]))
    /\ eventsBefore' = [eventsBefore EXCEPT ![c] = Range(recent[MyKey(c)])]
    /\ Goto(c, "replay_read")
    /\ UNCHANGED <<req, sock, accepted, closeCode, user, updates, frames, pings, wsVars,
                   raised, redisVars, workerVars, bridgeVars, castVars>>
    /\ UNCHANGED <<hbVars, tokVars, lockVars, callVars>>
A_Register(c) ==
    /\ pc[c] = "register"
    /\ req[c].ep = "cm"
    /\ SetCmReg(CmConnect(CmReg, c, req[c].cls, req[c].res, user[c]))
    /\ IF sock[c] = "open"
       THEN /\ Sent(c, WelcomeFrame)
            /\ eventsBefore' = [eventsBefore EXCEPT ![c] = Range(recent[MyKey(c)])]
            /\ Goto(c, "replay_read")
       ELSE UNCHANGED <<frames, eventsBefore>> /\ Goto(c, "done")
    /\ UNCHANGED <<req, sock, accepted, closeCode, user, updates, pings, wsVars,
                   raised, redisVars, workerVars, bridgeVars, castVars>>
    /\ UNCHANGED <<hbVars, tokVars, lockVars, callVars>>

\* send_recent_*_updates: zrange(key, 0, -1) in the executor
A_ReplayRead(c, ok) ==
    /\ pc[c] = "replay_read"
    /\ updates' = [updates EXCEPT ![c] = IF ok THEN recent[MyKey(c)] ELSE <<>>]
    /\ Goto(c, IF updates'[c] = <<>> THEN "loop" ELSE "replay_send")
    /\ UNCHANGED <<req, sock, accepted, closeCode, user, frames, eventsBefore, pings,
                   notClient>>
    /\ UNCHANGED <<hbVars, tokVars, lockVars, callVars>>

\* send_recent_*_updates: one send_text of the loop; an error breaks the loop
A_ReplaySend_ErrorEndsHandler(c) ==
    /\ pc[c] = "replay_send"
    /\ IF sock[c] = "open"
       THEN /\ Sent(c, Frame("replay", Head(updates[c]), MyTopic(c)))
            /\ updates' = [updates EXCEPT ![c] = Tail(@)]
            /\ Goto(c, IF updates'[c] = <<>> THEN "loop" ELSE "replay_send")
            /\ UNCHANGED raised
       ELSE /\ UNCHANGED <<frames, updates>>
            /\ Goto(c, "done")
            /\ raised' = TRUE
    /\ UNCHANGED <<req, sock, accepted, closeCode, user, eventsBefore, pings, wsVars,
                   cmVars, redisVars, workerVars, bridgeVars, castVars>>
    /\ UNCHANGED <<hbVars, tokVars, lockVars, callVars>>
A_ReplaySend(c) ==
    /\ pc[c] = "replay_send"
    /\ IF sock[c] = "open"
       THEN /\ Sent(c, Frame("replay", Head(updates[c]), MyTopic(c)))
            /\ updates' = [updates EXCEPT ![c] = Tail(@)]
       ELSE /\ UNCHANGED frames
            /\ updates' = [updates EXCEPT ![c] = <<>>]
    /\ Goto(c, IF updates'[c] = <<>> THEN "loop" ELSE "replay_send")
    /\ UNCHANGED <<req, sock, accepted, closeCode, user, eventsBefore, pings, notClient>>
    /\ UNCHANGED <<hbVars, tokVars, lockVars, callVars>>

\* the receive loop: one inbound text frame
Inbound == {"ping", "json_object", "json_other", "not_json"}
A_Receive(c, m) ==
    /\ pc[c] = "loop"
    /\ req[c].ep = "cm"
    /\ sock[c] = "open"
    /\ CASE m = "ping" ->
              /\ pings < MaxPings
              /\ pings' = pings + 1
              /\ Sent(c, PongFrame)
              /\ UNCHANGED <<pc, sock, cmVars, raised, eventsBefore>>
         [] m = "json_other" ->
              \* message.get raises AttributeError: except Exception, finally
              /\ SetCmReg(CmDisconnect(CmReg, c))
              /\ raised' = (raised \/ CmDisconnectRaises(CmReg, c))
              /\ sock' = [sock EXCEPT ![c] = "closed"]
              /\ Goto(c, "done")
              /\ eventsBefore' = [eventsBefore EXCEPT ![c] = {}]
              /\ UNCHANGED <<frames, pings>>
         [] OTHER -> UNCHANGED <<frames, pc, sock, cmVars, raised, pings, eventsBefore>>
    /\ UNCHANGED <<req, accepted, closeCode, user, updates, wsVars,
                   redisVars, workerVars, bridgeVars, castVars>>
    /\ UNCHANGED <<hbVars, tokVars, lockVars, callVars>>

\* receive_text raises WebSocketDisconnect; finally: manager.disconnect
A_Closed(c) ==
    /\ pc[c] = "loop"
    /\ req[c].ep = "cm"
    /\ sock[c] \in {"dead", "closed"}
    /\ SetCmReg(CmDisconnect(CmReg, c))
    /\ raised' = (raised \/ CmDisconnectRaises(CmReg, c))
    /\ Goto(c, "done")
    /\ eventsBefore' = [eventsBefore EXCEPT ![c] = {}]
    /\ UNCHANGED <<req, sock, accepted, closeCode, user, updates, frames,
                   pings, wsVars, redisVars, workerVars, bridgeVars, castVars>>
    /\ UNCHANGED <<hbVars, tokVars, lockVars, callVars>>

\* ------------------------------------------------- api/endpoints/ws.py
\* verify_file_ownership / verify_query_ownership: every failure closes the
\* socket before it was accepted and raises; the endpoint's close(1011) then
\* fails on the closed socket; finally: ws_manager.disconnect(connection_id)
B_Verify(c) ==
    /\ pc[c] = "verify"
    /\ LET u == TokenSub(req[c].tok)
           ok == u # None /\ verify_access(req[c].cls, req[c].res, u)
       IN IF ok
          THEN /\ user' = [user EXCEPT ![c] = u]
               /\ Goto(c, "accept")
               /\ UNCHANGED <<closeCode, sock, wsVars>>
          ELSE /\ IF sock[c] = "open"
                  THEN /\ closeCode' = [closeCode EXCEPT
                                           ![c] = WS_1008_POLICY_VIOLATION]
                       /\ sock' = [sock EXCEPT ![c] = "closed"]
                  ELSE UNCHANGED <<closeCode, sock>>
               /\ SetWsReg(WsDisconnect(WsReg, c))
               /\ Goto(c, "done")
               /\ UNCHANGED user
    /\ UNCHANGED <<req, accepted, updates, frames, eventsBefore, pings, cmVars, raised,
                   redisVars, workerVars, bridgeVars, castVars>>
    /\ UNCHANGED <<hbVars, tokVars, lockVars, callVars>>

\* ws_manager.connect: await websocket.accept()
B_Accept(c) ==
    /\ pc[c] = "accept"
    /\ req[c].ep = "ws"
    /\ IF sock[c] = "open"
       THEN /\ accepted' = [accepted EXCEPT ![c] = TRUE]
            /\ Goto(c, "register")
            /\ UNCHANGED <<wsVars>>
       ELSE /\ SetWsReg(WsDisconnect(WsReg, c))
            /\ Goto(c, "done")
            /\ UNCHANGED accepted
    /\ UNCHANGED <<req, sock, closeCode, user, updates, frames, eventsBefore, pings,
                   cmVars, raised, redisVars, workerVars, bridgeVars, castVars>>
    /\ UNCHANGED <<hbVars, tokVars, lockVars, callVars>>

\* WebSocketManager.send_message(c, f) on registry R: the registry after it
WsAfterSend_KeepsFailed(R, c) == R
WsAfterSend(R, c) ==
    IF c \in R.ac /\ sock[c] # "open" THEN WsDisconnect(R, c) ELSE R
WsDelivered(R, c) == c \in R.ac /\ sock[c] = "open"

\* the rest of connect, subscribe to the resource's topic, and
\* send_message(connection_established): no suspension in between
B_Register(c) ==
    /\ pc[c] = "register"
    /\ req[c].ep = "ws"
    /\ LET R1 == WsConnect(WsReg, c, user[c])
           R2 == WsSubscribe(R1, c, MyTopic(c))
       IN /\ SetWsReg(WsAfterSend(R2, c))
          /\ raised' = (raised \/ WsSubscribeRaises(R1, c))
          /\ IF WsDelivered(R2, c) THEN Sent(c, WelcomeFrame) ELSE UNCHANGED frames
    /\ eventsBefore' = [eventsBefore EXCEPT ![c] = Range(recent[MyKey(c)])]
    /\ Goto(c, "status")
    /\ UNCHANGED <<req, sock, accepted, closeCode, user, updates, pings, cmVars,
                   redisVars, workerVars, bridgeVars, castVars>>
    /\ UNCHANGED <<hbVars, tokVars, lockVars, callVars>>

\* the row's current status, sent with send_message
B_Status(c) ==
    /\ pc[c] = "status"
    /\ SetWsReg(WsAfterSend(WsReg, c))
    /\ IF WsDelivered(WsReg, c) THEN Sent(c, StatusFrame(MyTopic(c)))
       ELSE UNCHANGED frames
    /\ Goto(c, "loop")
    /\ UNCHANGED <<req, sock, accepted, closeCode, user, updates, eventsBefore, pings,
                   cmVars, raised, redisVars, workerVars, bridgeVars, castVars>>
    /\ UNCHANGED <<hbVars, tokVars, lockVars, callVars>>

\* receive_text raises WebSocketDisconnect; finally: ws_manager.disconnect
B_Closed(c) ==
    /\ pc[c] = "loop"
    /\ req[c].ep = "ws"
    /\ sock[c] \in {"dead", "closed"}
    /\ SetWsReg(WsDisconnect(WsReg, c))
    /\ Goto(c, "done")
    /\ eventsBefore' = [eventsBefore EXCEPT ![c] = {}]
    /\ UNCHANGED <<req, sock, accepted, closeCode, user, updates, frames,
                   pings, cmVars, raised, redisVars, workerVars, bridgeVars, castVars>>
    /\ UNCHANGED <<hbVars, tokVars, lockVars, callVars>>

\* ---------------------------------------------- utils/redis_publisher.py
notWorker == <<wsVars, cmVars, raised, clientVars, bridgeVars, castVars>>
KeepNewest(s, n) == IF Len(s) <= n THEN s ELSE SubSeq(s, Len(s) - n + 1, Len(s))

\* a sorted set keeps its members in the order of their scores
InsertByScore_AtEnd(s, e) == Append(s, e)
InsertByScore(s, e) ==
    SelectSeq(s, LAMBDA x : x < e) \o <<e>> \o SelectSeq(s, LAMBDA x : x > e)

\* the message is built: its timestamp and its score time.time() are read
W_Stamp(w, cls, r) ==
    /\ wpc[w] = "idle"
    /\ wmsg' = [wmsg EXCEPT ![w] = [cls |-> cls, res |-> r, ev |-> nextEvent]]
    /\ nextEvent' = nextEvent + 1
    /\ wpc' = [wpc EXCEPT ![w] = "stamped"]
    /\ UNCHANGED <<redisVars, notWorker>>
    /\ UNCHANGED <<hbVars, tokVars, lockVars, callVars>>

\* r.zadd(recent_updates:<class>:<uuid>, {message: score})
W_Zadd_ErrorSkipped(w, ok) ==
    /\ wpc[w] = "stamped"
    /\ IF ok
       THEN /\ recent' = [recent EXCEPT ![RecentKey(wmsg[w].cls, wmsg[w].res)] =
                             InsertByScore(@, wmsg[w].ev)]
            /\ appended' = [appended EXCEPT ![RecentKey(wmsg[w].cls, wmsg[w].res)] =
                               Append(@, wmsg[w].ev)]
       ELSE UNCHANGED <<recent, appended>>
    /\ wpc' = [wpc EXCEPT ![w] = "trim"]
    /\ UNCHANGED <<wmsg, bus, published, nextEvent, notWorker>>
    /\ UNCHANGED <<hbVars, tokVars, lockVars, callVars>>
W_Zadd(w, ok) ==
    /\ wpc[w] = "stamped"
    /\ IF ok
       THEN /\ recent' = [recent EXCEPT ![RecentKey(wmsg[w].cls, wmsg[w].res)] =
                             InsertByScore(@, wmsg[w].ev)]
            /\ appended' = [appended EXCEPT ![RecentKey(wmsg[w].cls, wmsg[w].res)] =
                               Append(@, wmsg[w].ev)]
            /\ wpc' = [wpc EXCEPT ![w] = "trim"]
            /\ UNCHANGED wmsg
       ELSE /\ UNCHANGED <<recent, appended>>
            /\ wpc' = [wpc EXCEPT ![w] = "idle"]
            /\ wmsg' = [wmsg EXCEPT ![w] = NoMsg]
    /\ UNCHANGED <<bus, published, nextEvent, notWorker>>
    /\ UNCHANGED <<hbVars, tokVars, lockVars, callVars>>

\* zremrangebyrank(key, 0, -11)
W_Trim(w, ok) ==
    /\ wpc[w] = "trim"
    /\ IF ok
       THEN /\ recent' = [recent EXCEPT ![RecentKey(wmsg[w].cls, wmsg[w].res)] =
                             KeepNewest(@, Retention)]
            /\ wpc' = [wpc EXCEPT ![w] = "publish"]
            /\ UNCHANGED wmsg
       ELSE /\ UNCHANGED recent
            /\ wpc' = [wpc EXCEPT ![w] = "idle"]
            /\ wmsg' = [wmsg EXCEPT ![w] = NoMsg]
    /\ UNCHANGED <<bus, appended, published, nextEvent, notWorker>>
    /\ UNCHANGED <<hbVars, tokVars, lockVars, callVars>>

\* r.publish(channel, json): reaches this process only if it has subscribed
W_Publish(w, ok) ==
    /\ wpc[w] = "publish"
    /\ wpc' = [wpc EXCEPT ![w] = "idle"]
    /\ LET m == [channel |-> Channel(wmsg[w].cls, wmsg[w].res), ev |-> wmsg[w].ev]
       IN /\ published' = IF ok THEN Append(published, m) ELSE published
          /\ bus' = IF ok /\ busUp THEN Append(bus, m) ELSE bus
    /\ wmsg' = [wmsg EXCEPT ![w] = NoMsg]
    /\ UNCHANGED <<recent, appended, nextEvent, notWorker>>
    /\ UNCHANGED <<hbVars, tokVars, lockVars, callVars>>

\* ---------------- api/websockets/listener.py, core/websocket_redis_adapter.py
notBridge == <<cmVars, req, pc, sock, accepted, closeCode, user, updates,
               eventsBefore, pings, recent, appended, published, workerVars, castVars>>

\* psubscribe("file_updates:*"), psubscribe("query_updates:*"): outside the
\* loop's try, in a task nobody awaits; an error ends the task
BridgeStart(ok) ==
    /\ bpc = "starting"
    /\ bpc' = IF ok THEN "poll" ELSE "failed"
    /\ busUp' = ok
    /\ UNCHANGED <<wsVars, raised, frames, bus, bmsg, bsubs, handled, bwait, dropped,
                   notBridge>>
    /\ UNCHANGED <<hbVars, tokVars, lockVars, callVars>>

\* channel.startswith(...), channel.split(":")[1], then the adapter's topic
TopicOfChannel_Crossed(ch) ==
    IF ch.prefix = "file_updates" THEN [prefix |-> "query_processing", id |-> ch.id]
    ELSE IF ch.prefix = "query_updates" THEN [prefix |-> "file_processing", id |-> ch.id]
    ELSE NoTopic
TopicOfChannel(ch) ==
    IF ch.prefix = "file_updates" THEN [prefix |-> "file_processing", id |-> ch.id]
    ELSE IF ch.prefix = "query_updates" THEN [prefix |-> "query_processing", id |-> ch.id]
    ELSE NoTopic

\* send_to_topic: list(self.topic_subscribers[topic]), nothing without the key
Subscribers_Everyone(R, t) == R.ac
Subscribers(R, t) == Get(R.ts, t, {})

\* pubsub.get_message: the oldest pending message of the subscription
BusPop_Newest(b) == [msg |-> b[Len(b)], rest |-> SubSeq(b, 1, Len(b) - 1)]
BusPop(b) == [msg |-> Head(b), rest |-> Tail(b)]

\* what the loop does after an exception in its body: except Exception,
\* sleep(1), and round again
Faults == {"malformed", "delivery"}
AfterFault_TaskEnds(f) == IF f = "delivery" THEN "stopped" ELSE "pause"
AfterFault(f) == "pause"

\* get_message, handle_*_update, and send_to_topic up to its snapshot; with a
\* fault, decoding the message or building the frame raises
BridgeGet(f) ==
    /\ bpc = "poll"
    /\ busUp
    /\ bus # <<>>
    /\ bus' = BusPop(bus).rest
    /\ LET t == TopicOfChannel(BusPop(bus).msg.channel)
           m == [topic |-> t, ev |-> BusPop(bus).msg.ev]
       IN IF f \in Faults
          THEN /\ bpc' = AfterFault(f)
               /\ dropped' = dropped \cup {m}
               /\ UNCHANGED <<bsubs, bmsg, handled, returned>>
          ELSE /\ bsubs' = Subscribers(WsReg, t)
               /\ IF bsubs' = {}
                  THEN bpc' = "poll" /\ handled' = handled \cup {m} /\ UNCHANGED bmsg
                  ELSE bpc' = "sending" /\ bmsg' = m /\ UNCHANGED handled
               \* return 0, or successful_sends = 0
               /\ returned' = [op |-> "send_to_topic", ok |-> FALSE, count |-> 0]
               /\ UNCHANGED dropped
    /\ UNCHANGED <<wsVars, raised, frames, bwait, busUp, notBridge>>
    /\ UNCHANGED <<hbVars, tokVars, lockVars>>

\* get_message on a lost bus connection: the client library reconnects and
\* subscribes again, or raises
BridgeReconnect(ok) ==
    /\ bpc = "poll"
    /\ ~busUp
    /\ busUp' = ok
    /\ bpc' = IF ok THEN "poll" ELSE AfterFault("malformed")
    /\ UNCHANGED <<wsVars, raised, frames, bus, bmsg, bsubs, handled, bwait, dropped,
                   notBridge>>
    /\ UNCHANGED <<hbVars, tokVars, lockVars, callVars>>

\* await asyncio.sleep(1) returns
BridgePauseEnd ==
    /\ bpc = "pause"
    /\ bpc' = "poll"
    /\ UNCHANGED <<wsVars, raised, frames, bus, bmsg, bsubs, handled, bwait, busUp,
                   dropped, notBridge>>
    /\ UNCHANGED <<hbVars, tokVars, lockVars, callVars>>

\* the connection to Redis breaks: what was pending on it is lost
BusDrop ==
    /\ busUp
    /\ busUp' = FALSE
    /\ bus' = <<>>
    /\ dropped' = dropped \cup {[topic |-> TopicOfChannel(bus[i].channel),
                                 ev |-> bus[i].ev] : i \in 1..Len(bus)}
    /\ UNCHANGED <<wsVars, raised, frames, bpc, bmsg, bsubs, handled, bwait, notBridge>>
    /\ UNCHANGED <<hbVars, tokVars, lockVars, callVars>>

\* one send_message of send_to_topic's loop; the send to a client that has
\* stopped reading does not complete
BridgeSend(c) ==
    /\ bpc = "sending"
    /\ c \in bsubs
    /\ bwait \in {None, c}
    /\ IF c \in active_connections /\ sock[c] = "stalled"
       THEN /\ bwait' = c
            /\ UNCHANGED <<wsVars, frames, bsubs, bpc, handled, bmsg, returned>>
       ELSE /\ bwait' = None
            /\ SetWsReg(WsAfterSend(WsReg, c))
            /\ IF WsDelivered(WsReg, c)
               THEN /\ Sent(c, Frame("live", bmsg.ev, bmsg.topic))
                    /\ returned' = [returned EXCEPT !.count = @ + 1]
               ELSE UNCHANGED <<frames, returned>>
            /\ bsubs' = bsubs \ {c}
            /\ IF bsubs' = {}
               THEN bpc' = "poll" /\ handled' = handled \cup {bmsg}
                    /\ bmsg' = NoBusMsg
               ELSE UNCHANGED <<bpc, handled, bmsg>>
    /\ UNCHANGED <<raised, bus, busUp, dropped, notBridge>>
    /\ UNCHANGED <<hbVars, tokVars, lockVars>>

\* the process shuts down: the server closes the sockets and ends the
\* handlers, whose finally blocks empty the registries; shutdown_event
\* disposes the database engine; the listener task, which nothing awaits or
\* cancels, ends with the event loop wherever it is, and its bus connection
\* with the process
Shutdown ==
    /\ bpc # "cancelled"
    /\ bpc' = "cancelled"
    /\ sock' = [c \in Conns |->
                   IF sock[c] \in {"open", "stalled"} THEN "closed" ELSE sock[c]]
    /\ pc' = [c \in Conns |-> IF pc[c] = "idle" THEN "idle" ELSE "done"]
    /\ eventsBefore' = [c \in Conns |-> {}]
    /\ active_connections' = {}
    /\ user_connections' = EmptyDict
    /\ topic_subscribers' = EmptyDict
    /\ connection_to_user' = EmptyDict
    /\ connection_topics' = EmptyDict
    /\ file_connections' = EmptyDict
    /\ query_connections' = EmptyDict
    /\ cm_user_connections' = EmptyDict
    /\ connection_info' = EmptyDict
    /\ busUp' = FALSE
    /\ UNCHANGED <<raised, req, accepted, closeCode, user, updates, frames, pings,
                   redisVars, workerVars, bmsg, bsubs, handled, bwait, dropped,
                   castVars>>
    /\ UNCHANGED <<hbVars, tokVars, lockVars, callVars>>

\* ------------------------- ConnectionManager.broadcast_*_update(uuid, ...)
notCast == <<wsVars, req, pc, accepted, closeCode, user, updates, eventsBefore,
             pings, sock, redisVars, workerVars, bridgeVars>>
CmSubscribers(R, cls, r) ==
    IF cls = "file" THEN Get(R.fc, r, {}) ELSE Get(R.qc, r, {})

\* the early return, then the copy of the resource's set under the lock
CmBroadcastStart(cls, r, e) ==
    /\ cbpc = "idle"
    /\ \A k \in Workers : wpc[k] = "idle"
    /\ bpc = "poll" /\ bus = <<>>
    /\ e \in Range(recent[RecentKey(cls, r)])
    /\ e > ncast
    /\ ncast' = e
    /\ cbsubs' = CmSubscribers(CmReg, cls, r)
    /\ cbmsg' = IF cbsubs' = {} THEN NoMsg ELSE [cls |-> cls, res |-> r, ev |-> e]
    /\ cbdisc' = {}
    /\ cbpc' = IF cbsubs' = {} THEN "idle" ELSE "sending"
    /\ UNCHANGED <<cmVars, raised, frames, notCast>>
    /\ UNCHANGED <<hbVars, tokVars, lockVars, callVars>>

\* one websocket.send_text of the loop
CmBroadcastSend(w) ==
    /\ cbpc = "sending"
    /\ w \in cbsubs
    /\ sock[w] # "stalled"
    /\ cbsubs' = cbsubs \ {w}
    /\ IF sock[w] = "open"
       THEN Sent(w, Frame("live", cbmsg.ev, Topic(cbmsg.cls, cbmsg.res)))
            /\ UNCHANGED cbdisc
       ELSE UNCHANGED frames /\ cbdisc' = cbdisc \cup {w}
    /\ cbpc' = IF cbsubs' # {} THEN "sending"
               ELSE IF cbdisc' # {} THEN "cleanup" ELSE "idle"
    /\ cbmsg' = IF cbsubs' = {} THEN NoMsg ELSE cbmsg
    /\ UNCHANGED <<cmVars, raised, ncast, notCast>>
    /\ UNCHANGED <<hbVars, tokVars, lockVars, callVars>>

\* for ws in disconnected: await self.disconnect(ws)
CmBroadcastCleanup(w) ==
    /\ cbpc = "cleanup"
    /\ w \in cbdisc
    /\ SetCmReg(CmDisconnect(CmReg, w))
    /\ raised' = (raised \/ CmDisconnectRaises(CmReg, w))
    /\ cbdisc' = cbdisc \ {w}
    /\ cbpc' = IF cbdisc' = {} THEN "idle" ELSE "cleanup"
    /\ UNCHANGED <<frames, cbmsg, cbsubs, ncast, notCast>>
    /\ UNCHANGED <<hbVars, tokVars, lockVars, callVars>>

\* ------------------------------------------------------------------ Spec
\* one worker process publishes
OneWorker == {w \in Workers : \A k \in Workers : w <= k}
\* worker processes are alike: the next task goes to the first idle one
LowestIdle(w) == \A k \in Workers : k < w => wpc[k] # "idle"

Next ==
    \/ \E c \in Conns, ep \in Endpoints, cls \in Classes, r \in Res, tok \in Tokens :
           ClientConnect(c, ep, cls, r, tok)
    \/ \E c \in Conns : ClientGone(c)
    \/ \E c \in Conns : A_Auth(c)
    \/ \E c \in Conns : A_Authz(c)
    \/ \E c \in Conns : A_RejectAccept(c)
    \/ \E c \in Conns : A_RejectClose(c)
    \/ \E c \in Conns : A_Accept(c)
    \/ \E c \in Conns : A_Register(c)
    \/ \E c \in Conns, ok \in BOOLEAN : A_ReplayRead(c, ok)
    \/ \E c \in Conns : A_ReplaySend(c)
    \/ \E c \in Conns, m \in Inbound : A_Receive(c, m)
    \/ \E c \in Conns : A_Closed(c)
    \/ \E c \in Conns : B_Verify(c)
    \/ \E c \in Conns : B_Accept(c)
    \/ \E c \in Conns : B_Register(c)
    \/ \E c \in Conns : B_Status(c)
    \/ \E c \in Conns : B_Closed(c)
    \/ \E w \in OneWorker, cls \in Classes, r \in Res :
           nextEvent <= MaxEvents /\ W_Stamp(w, cls, r)
    \/ \E w \in OneWorker, ok \in BOOLEAN : W_Zadd(w, ok)
    \/ \E w \in OneWorker, ok \in BOOLEAN : W_Trim(w, ok)
    \/ \E w \in OneWorker, ok \in BOOLEAN : W_Publish(w, ok)
    \/ BridgeStart(TRUE)
    \/ BridgeGet("none")
    \/ \E c \in Conns : BridgeSend(c)
    \/ \E cls \in Classes, r \in Res, e \in 1..MaxEvents : CmBroadcastStart(cls, r, e)
    \/ \E c \in Conns : CmBroadcastSend(c)
    \/ \E c \in Conns : CmBroadcastCleanup(c)

Spec == Init /\ [][Next]_vars

\* ------------------------------------------------------------ properties
InDict(d, c) == \E k \in DOMAIN d : c \in d[k]
\* the connection has an entry in some index of WebSocketManager
InWs(c) ==
    \/ c \in active_connections
    \/ c \in DOMAIN connection_to_user
    \/ c \in DOMAIN connection_topics
    \/ InDict(user_connections, c)
    \/ InDict(topic_subscribers, c)
\* the connection has an entry in some index of ConnectionManager
InCm(c) ==
    \/ c \in DOMAIN connection_info
    \/ InDict(file_connections, c)
    \/ InDict(query_connections, c)
    \/ InDict(cm_user_connections, c)
\* the token names a user and that user owns the requested resource
Authorized(c) ==
    /\ TokenSub(req[c].tok) # None
    /\ Owner(req[c].cls, req[c].res) = TokenSub(req[c].tok)
Started(c) == pc[c] # "idle"
HasFrame(c, kind, e) ==
    \E i \in 1..Len(frames[c]) : frames[c][i].kind = kind /\ frames[c][i].ev = e
HasKind(c, kind) == \E i \in 1..Len(frames[c]) : frames[c][i].kind = kind

\* C2: on every connection, every replayed frame is sent before any live
\* frame of the resource: no live frame is followed by a replayed frame.
C2_ReplayBeforeLive ==
    \A c \in Conns : \A i \in 1..Len(frames[c]), j \in 1..Len(frames[c]) :
        (i < j /\ frames[c][i].kind = "live") => frames[c][j].kind # "replay"

\* C3: a client admitted through the processing or chat endpoint, still
\* connected, has been sent every event that was published for its resource
\* after its admission and that the bus bridge has finished handling.
C3_PublishedReachesAdmitted ==
    \A c \in Conns : \A m \in handled :
        (/\ req[c].ep = "cm" /\ pc[c] = "loop" /\ sock[c] = "open"
         /\ m.topic = MyTopic(c)
         /\ m.ev \notin eventsBefore[c])
            => (HasFrame(c, "live", m.ev) \/ HasFrame(c, "replay", m.ev))

\* C4: a client admitted for a resource, once its handler waits for inbound
\* frames, has been sent as a replayed frame every event that was published
\* for the resource before its admission and is still retained.
C4_LateJoinerReplayed ==
    \A c \in Conns :
        (pc[c] = "loop" /\ sock[c] = "open")
            => \A e \in eventsBefore[c] \cap Range(recent[MyKey(c)]) :
                   HasFrame(c, "replay", e)

\* C5: a live frame reaches a connection only for an event of the resource
\* the connection is subscribed to: never an event of another topic, never a
\* file event on a query subscription or the reverse.
C5_FanOutIsolated ==
    \A c \in Conns : \A i \in 1..Len(frames[c]) :
        frames[c][i].kind = "live"
            => /\ frames[c][i].ev \in Range(recent[MyKey(c)])
               /\ frames[c][i].topic = MyTopic(c)

\* an event was delivered live to its subscriber while a connection
\* subscribed to another topic stayed registered and received nothing
C5_Witness ==
    \E c \in Conns, d \in Conns :
        /\ HasKind(c, "live")
        /\ MyTopic(d) # MyTopic(c)
        /\ pc[d] = "loop" /\ sock[d] = "open"
        /\ InWs(d) \/ InCm(d)
        /\ ~HasKind(d, "live")
        /\ bpc = "poll" /\ cbpc = "idle"

\* the steps in which ConnectionManager.disconnect(c) is called
CmRemoveCalled(c) ==
    \/ A_Closed(c)
    \/ A_Receive(c, "json_other")
    \/ CmBroadcastCleanup(c)
\* the steps in which WebSocketManager.disconnect(c) is called
WsRemoveCalled(c) ==
    \/ B_Closed(c)
    \/ B_Verify(c) /\ pc'[c] = "done"
    \/ B_Accept(c) /\ pc'[c] = "done"
    \/ B_Status(c) /\ c \in active_connections /\ sock[c] # "open"
    \/ BridgeSend(c) /\ c \in active_connections /\ sock[c] # "open"

\* C6: every call of a registry's remove operation leaves the connection in
\* no index of that registry and raises nothing, and a call for a connection
\* that is already in no index changes nothing in the registry.
C6_RemoveIdempotent ==
    [][\A c \in Conns :
          /\ CmRemoveCalled(c) =>
                /\ ~InCm(c)'
                /\ ~raised'
                /\ ~InCm(c) => UNCHANGED cmVars
          /\ WsRemoveCalled(c) =>
                /\ ~InWs(c)'
                /\ ~raised'
                /\ ~InWs(c) => UNCHANGED wsVars]_vars

\* a handler has ended and called disconnect for a connection that a failed
\* send had already removed: its status frame was never delivered
C6_Witness ==
    \E c \in Conns :
        /\ req[c].ep = "ws" /\ pc[c] = "done"
        /\ HasKind(c, "connection_established")
        /\ ~HasKind(c, "status")
        /\ ~InWs(c)

\* C7: no admitted connection is still registered after its handler has
\* returned.
C7_RemovedWhenHandlerEnds ==
    \A c \in Conns : pc[c] = "done" => ~InCm(c) /\ ~InWs(c)

\* C8: a connection is in a registry only if its token authenticated and the
\* token's user owns the requested resource, and only after its handler has
\* completed both checks.
C8_OnlyAuthorizedRegistered ==
    \A c \in Conns :
        (InCm(c) \/ InWs(c))
            => /\ Authorized(c)
               /\ user[c] = TokenSub(req[c].tok)
               /\ pc[c] \notin {"idle", "auth", "authz", "verify",
                                "reject_accept", "reject_close"}

\* one connection is registered while another, whose token failed a check,
\* has ended without ever being registered
C8_Witness ==
    \E c \in Conns, d \in Conns :
        /\ InCm(c) \/ InWs(c)
        /\ ~Authorized(d) /\ pc[d] = "done"
        /\ TokenSub(req[d].tok) # None

\* C9: when authentication or authorization fails the server never accepts
\* the transport connection, and the only close code is 1008.
C9_RejectedNeverAccepted ==
    \A c \in Conns :
        (Started(c) /\ ~Authorized(c))
            => /\ ~accepted[c]
               /\ closeCode[c] \in {None, WS_1008_POLICY_VIOLATION}

\* C10: connection_established is sent only to a client that passed both
\* checks, it is the first frame and is sent once, no event or status frame
\* comes without it, and a client that passed both checks and whose handler
\* is past admission with the transport up has been sent it.
C10_WelcomeIffAdmitted ==
    \A c \in Conns :
        /\ HasKind(c, "connection_established") => Authorized(c)
        /\ \A i \in 1..Len(frames[c]) :
              frames[c][i] = WelcomeFrame <=> (i = 1 /\ Authorized(c))
        /\ (/\ Authorized(c) /\ sock[c] = "open"
            /\ pc[c] \in {"replay_read", "replay_send", "status", "loop"})
               => HasKind(c, "connection_established")

\* a client has the welcome frame first, followed by a replayed and a live
\* frame, while a rejected client has only the error frame
C10_Witness ==
    \E c \in Conns, d \in Conns :
        /\ Len(frames[c]) >= 3 /\ frames[c][1] = WelcomeFrame
        /\ HasKind(c, "replay") /\ HasKind(c, "live")
        /\ ~Authorized(d) /\ frames[d] = <<ErrorFrame>>

RECURSIVE PongsSent(_)
\* the pong frames sent so far on the connections of set S
PongsSent(S) ==
    IF S = {} THEN 0
    ELSE LET c == CHOOSE x \in S : TRUE
         IN Cardinality({i \in 1..Len(frames[c]) : frames[c][i].kind = "pong"})
                + PongsSent(S \ {c})

\* C11: every ping received was answered by exactly one pong, and an
\* admitted connection of the processing or chat endpoint whose client has
\* not gone away is still open, in its receive loop or before it, and
\* registered: no inbound frame made the server end it.
C11_OnlyPingAnswered ==
    /\ PongsSent(Conns) = pings
    /\ \A c \in Conns :
          (req[c].ep = "cm" /\ HasKind(c, "connection_established")
              /\ sock[c] # "dead")
             => (sock[c] = "open" /\ pc[c] # "done" /\ InCm(c))

\* ---------------------------------------------------------------- SpecFan
\* the fan-out of one kind of topic alone: owners of files connect to the
\* topic router, workers publish file events, the listener delivers, and a
\* client may stop reading
NextFan ==
    \/ \E c \in Conns, r \in Res :
           ClientConnect(c, "ws", "file", r, [kind |-> "jwt", sub |-> Owner("file", r)])
    \/ \E c \in Conns : ClientGone(c)
    \/ \E c \in Conns : ClientStall(c)
    \/ \E c \in Conns : B_Verify(c)
    \/ \E c \in Conns : B_Accept(c)
    \/ \E c \in Conns : B_Register(c)
    \/ \E c \in Conns : B_Status(c)
    \/ \E c \in Conns : B_Closed(c)
    \/ \E w \in Workers, r \in Res :
           nextEvent <= MaxFanEvents /\ LowestIdle(w) /\ W_Stamp(w, "file", r)
    \/ \E w \in Workers : W_Zadd(w, TRUE)
    \/ \E w \in Workers : W_Trim(w, TRUE)
    \/ \E w \in Workers : W_Publish(w, TRUE)
    \/ BridgeStart(TRUE)
    \/ BridgeGet("none")
    \/ \E c \in Conns : BridgeSend(c)

SpecFan == Init /\ [][NextFan]_vars

\* C12: publishing to a topic never waits on a subscriber whose send does not
\* complete: while the listener's send to one subscriber is pending, no other
\* subscriber of the topic is still waiting for the event and no bus message
\* is waiting for the listener.
C12_NeverWaitsOnSubscriber ==
    bwait # None => (bsubs = {bwait} /\ bus = <<>>)

\* what the two registries hold about one connection
At(d, k) == {d[x] : x \in {k} \cap DOMAIN d}
KeysWith(d, c) == {k \in DOMAIN d : c \in d[k]}
WsEntry(c) ==
    <<c \in active_connections, At(connection_to_user, c), At(connection_topics, c),
      KeysWith(user_connections, c), KeysWith(topic_subscribers, c)>>
CmEntry(c) ==
    <<At(connection_info, c), KeysWith(file_connections, c),
      KeysWith(query_connections, c), KeysWith(cm_user_connections, c)>>
OthersKept(c) ==
    \A d \in Conns \ {c} : WsEntry(d)' = WsEntry(d) /\ CmEntry(d)' = CmEntry(d)
SendFails(c) == sock[c] \in {"dead", "closed"}

\* C13: when the send of an event to one subscriber fails, that connection and
\* no other is evicted from every index, nothing is raised to the listener or
\* the broadcaster, which go on with the remaining subscribers, and a
\* subscriber whose send succeeds gets the event.
C13_FailedSendEvictsOnlyThat ==
    [][\A c \in Conns :
          /\ (BridgeSend(c) /\ c \in active_connections /\ SendFails(c)) =>
                /\ ~InWs(c)'
                /\ OthersKept(c)
                /\ ~raised'
                /\ bsubs' = bsubs \ {c}
                /\ bpc' = IF bsubs' = {} THEN "poll" ELSE "sending"
                /\ frames' = frames
          /\ (BridgeSend(c) /\ c \in active_connections /\ sock[c] = "open") =>
                /\ frames'[c] = Append(frames[c], Frame("live", bmsg.ev, bmsg.topic))
                /\ WsEntry(c)' = WsEntry(c)
                /\ OthersKept(c)
          /\ (CmBroadcastSend(c) /\ SendFails(c)) =>
                /\ c \in cbdisc'
                /\ OthersKept(c)
                /\ ~raised'
                /\ cbsubs' = cbsubs \ {c}
                /\ cbpc' = IF cbsubs' = {} THEN "cleanup" ELSE "sending"
          /\ (CmBroadcastSend(c) /\ sock[c] = "open") =>
                /\ frames'[c] = Append(frames[c],
                                       Frame("live", cbmsg.ev, Topic(cbmsg.cls, cbmsg.res)))
                /\ CmEntry(c)' = CmEntry(c)
                /\ OthersKept(c)
          /\ CmBroadcastCleanup(c) =>
                /\ ~InCm(c)'
                /\ OthersKept(c)
                /\ ~raised'
      ]_vars
\* the send to one subscriber of a topic has failed and evicted it, and the
\* other subscriber of the topic holds the event
C13_Witness ==
    \E c, d \in Conns :
       /\ c # d
       /\ req[c].ep = "ws" /\ req[d].ep = "ws" /\ req[c].res = req[d].res
       /\ req[c].cls = req[d].cls
       /\ HasKind(c, "connection_established") /\ ~InWs(c) /\ pc[c] = "loop"
       /\ HasKind(d, "live") /\ InWs(d)
       /\ \E m \in handled : m.topic = MyTopic(c)

LiveAt(c, i) == i \in 1..Len(frames[c]) /\ frames[c][i].kind = "live"
\* C15: two events published to the same topic that were both sent to one
\* subscriber were sent to it in the order in which they were published.
C15_TopicOrderKept ==
    \A c \in Conns : \A i, j \in 1..Len(frames[c]) :
       (i < j /\ LiveAt(c, i) /\ LiveAt(c, j) /\ frames[c][i].topic = frames[c][j].topic)
          => \E p, q \in 1..Len(published) :
                /\ p < q
                /\ published[p].ev = frames[c][i].ev
                /\ published[q].ev = frames[c][j].ev
\* a subscriber holds two events of its topic, which two workers published
\* in the reverse of the order in which they were stamped
C15_Witness ==
    /\ Len(published) = 2
    /\ published[1].ev > published[2].ev
    /\ \E c \in Conns : \E i, j \in 1..Len(frames[c]) :
          i < j /\ LiveAt(c, i) /\ LiveAt(c, j) /\ frames[c][i].topic = frames[c][j].topic

\* ---------------------------------------------------------------- SpecPub
\* the replay buffer of one file, after some events: worker processes
\* publish further events concurrently, any Redis command may fail, and the
\* file's owner connects to the replaying router
FirstConn == {c \in Conns : \A d \in Conns : c <= d}
NextPub ==
    \/ \E c \in FirstConn, r \in Res :
           ClientConnect(c, "cm", "file", r, [kind |-> "jwt", sub |-> Owner("file", r)])
    \/ \E c \in FirstConn : ClientGone(c)
    \/ \E c \in FirstConn : A_Auth(c)
    \/ \E c \in FirstConn : A_Authz(c)
    \/ \E c \in FirstConn : A_Accept(c)
    \/ \E c \in FirstConn : A_Register(c)
    \/ \E c \in FirstConn, ok \in BOOLEAN : A_ReplayRead(c, ok)
    \/ \E c \in FirstConn : A_ReplaySend(c)
    \/ \E c \in FirstConn : A_Closed(c)
    \/ \E w \in Workers, r \in Res :
           nextEvent <= MaxPubEvents /\ LowestIdle(w) /\ W_Stamp(w, "file", r)
    \/ \E w \in Workers, ok \in BOOLEAN : W_Zadd(w, ok)
    \/ \E w \in Workers, ok \in BOOLEAN : W_Trim(w, ok)
    \/ \E w \in Workers, ok \in BOOLEAN : W_Publish(w, ok)

\* the events 1..n of the first file, published one after the other
FirstEvents(n) == [i \in 1..n |-> i]
InitPub ==
    /\ InitQuiet
    /\ recent = [k \in RecentKeys |->
                    IF k = RecentKey("file", 1) THEN FirstEvents(Prefilled) ELSE <<>>]
    /\ appended = recent
    /\ published = [i \in 1..Prefilled |-> [channel |-> Channel("file", 1), ev |-> i]]
    /\ nextEvent = Prefilled + 1
    /\ handshake = NoHandshake
    /\ token = NotRead

SpecPub == InitPub /\ [][NextPub]_vars

\* the last n elements of a sequence, as a set
LastN(s, n) == {s[i] : i \in {j \in 1..Len(s) : j > Len(s) - n}}

\* C16: whenever a publish for a resource completes, whatever other worker
\* processes are doing, the replay buffer of the resource holds at most 10
\* entries and they are the 10 most recently appended events.
C16_BufferBoundedNewest ==
    [][\A w \in Workers :
          W_Publish(w, TRUE) =>
             LET k == RecentKey(wmsg[w].cls, wmsg[w].res)
             IN /\ Len(recent'[k]) <= Retention
                /\ Range(recent'[k]) = LastN(appended'[k], Retention)
      ]_vars

\* the events of the replayed frames of a frame sequence, in the order sent
ReplayEvs(f) ==
    LET sel == SelectSeq(f, LAMBDA x : x.kind = "replay")
    IN [i \in 1..Len(sel) |-> sel[i].ev]
Ascending(s) == \A i, j \in 1..Len(s) : i < j => s[i] < s[j]

Up == bpc # "cancelled"
BridgeStep ==
    \/ \E ok \in BOOLEAN : BridgeStart(ok)
    \/ \E f \in Faults \cup {"none"} : BridgeGet(f)
    \/ \E ok \in BOOLEAN : BridgeReconnect(ok)
    \/ BridgePauseEnd
    \/ \E c \in Conns : BridgeSend(c)
NextBridge ==
    \/ \E c \in FirstConn, r \in Res :
           Up /\ ClientConnect(c, "ws", "file", r, [kind |-> "jwt", sub |-> Owner("file", r)])
    \/ \E c \in FirstConn : ClientGone(c)
    \/ \E c \in FirstConn : B_Verify(c)
    \/ \E c \in FirstConn : B_Accept(c)
    \/ \E c \in FirstConn : B_Register(c)
    \/ \E c \in FirstConn : B_Status(c)
    \/ \E c \in FirstConn : B_Closed(c)
    \/ \E w \in OneWorker, r \in Res :
           nextEvent <= MaxBridgeEvents /\ W_Stamp(w, "file", r)
    \/ \E w \in OneWorker : W_Zadd(w, TRUE)
    \/ \E w \in OneWorker : W_Trim(w, TRUE)
    \/ \E w \in OneWorker : W_Publish(w, TRUE)
    \/ BridgeStep
    \/ BusDrop
    \/ Shutdown

SpecBridge == Init /\ [][NextBridge]_vars
\* the event loop runs the listener task whenever it can take a step
SpecBridgeLive == SpecBridge /\ WF_vars(BridgeStep)

InBus(e) == \E i \in 1..Len(bus) : bus[i].ev = e
HandedOn(e) == \E m \in handled : m.ev = e
Dropped(e) == \E m \in dropped : m.ev = e
Looping == {"poll", "sending", "pause"}

Admitted(c) == accepted[c] /\ pc[c] \notin {"idle", "done"}

\* C19: when the listener could not subscribe to the bus at startup, the
\* application does not run: no client connection is admitted or registered
\* while the process has no bus subscription.
C19_NoClientsWithoutBus ==
    bpc = "failed" => \A c \in Conns : ~Admitted(c) /\ ~InWs(c) /\ ~InCm(c)

\* C20: once the process has shut down, no message published on the bus is
\* left undelivered, neither pending on the subscription nor part-way through
\* its fan-out, and every connection is closed and in no registry.
C20_ShutdownDrains ==
    bpc = "cancelled" =>
       /\ bus = <<>>
       /\ bmsg = NoBusMsg
       /\ \A c \in Conns : sock[c] # "open" /\ ~InWs(c) /\ ~InCm(c)

\* ---------------------------------------- tests/enhanced_heartbeat.py
notHb == <<req, accepted, user, updates, eventsBefore, notClient>>

\* enhanced_websocket_endpoint: HeartbeatManager(timeout_seconds=60) and
\* create_task(check_timeouts())
H_Connect(c) ==
    /\ pc[c] = "idle"
    /\ hpc = "off"
    /\ sock' = [sock EXCEPT ![c] = "open"]
    /\ Goto(c, "hb_accept")
    /\ hpc' = "created"
    /\ UNCHANGED <<closeCode, frames, pings, now, last_activity, wake, quietSince,
                   req, user, updates, eventsBefore, accepted, notClient>>
    /\ UNCHANGED <<tokVars, lockVars, callVars>>

\* accept, during which the new task sweeps an empty tracker and sleeps;
\* register_connection; the welcome frame. A client that has gone makes
\* accept raise: finally cancels the task
H_Accept(c) ==
    /\ pc[c] = "hb_accept"
    /\ IF sock[c] = "open"
       THEN /\ accepted' = [accepted EXCEPT ![c] = TRUE]
            /\ last_activity' = Put(last_activity, c, now)
            /\ quietSince' = [quietSince EXCEPT ![c] = now]
            /\ Sent(c, WelcomeFrame)
            /\ Goto(c, "hb_loop")
            /\ hpc' = "sleeping"
            /\ wake' = now + SweepInterval
       ELSE /\ Goto(c, "done")
            /\ hpc' = "off"
            /\ UNCHANGED <<accepted, last_activity, quietSince, frames, wake>>
    /\ UNCHANGED <<sock, closeCode, pings, now, req, user, updates, eventsBefore,
                   notClient>>
    /\ UNCHANGED <<tokVars, lockVars, callVars>>

\* the finally block: cancel the task, unregister_connection, close()
H_Finally(c) ==
    /\ Goto(c, "done")
    /\ hpc' = "off"
    /\ last_activity' = Pop(last_activity, c)
    /\ sock' = [sock EXCEPT ![c] = IF @ = "open" THEN "closed" ELSE @]
    /\ closeCode' = [closeCode EXCEPT ![c] =
                        IF sock[c] = "open" THEN WS_1000_NORMAL_CLOSURE ELSE @]

\* one inbound text frame: update_activity, then a pong for a ping; a JSON
\* value that is no object makes message.get raise, which ends the loop
HbInbound == {"ping", "json_other", "other"}
H_Receive(c, m) ==
    /\ pc[c] = "hb_loop"
    /\ sock[c] = "open"
    /\ quietSince' = [quietSince EXCEPT ![c] = now]
    /\ CASE m = "ping" ->
              /\ pings < MaxPings
              /\ pings' = pings + 1
              /\ last_activity' = Put(last_activity, c, now)
              /\ Sent(c, PongFrame)
              /\ UNCHANGED <<pc, sock, closeCode, hpc>>
         [] m = "json_other" ->
              /\ H_Finally(c)
              /\ UNCHANGED <<frames, pings>>
         [] OTHER ->
              /\ last_activity' = Put(last_activity, c, now)
              /\ UNCHANGED <<pc, sock, closeCode, hpc, frames, pings>>
    /\ UNCHANGED <<now, wake, notHb>>
    /\ UNCHANGED <<tokVars, lockVars, callVars>>

\* receive_text raises on a socket that is closed or gone
H_Closed(c) ==
    /\ pc[c] = "hb_loop"
    /\ sock[c] \in {"dead", "closed"}
    /\ H_Finally(c)
    /\ UNCHANGED <<frames, pings, now, wake, quietSince, notHb>>
    /\ UNCHANGED <<tokVars, lockVars, callVars>>

\* check_timeouts: current_time - last_time > self.timeout_seconds
Expired_AtTimeout(c) == now - last_activity[c] >= timeout_seconds
Expired_Late(c) == now - last_activity[c] > timeout_seconds + SweepInterval
Expired(c) == now - last_activity[c] > timeout_seconds

\* one round of check_timeouts when its sleep ends: close(code=1000) and
\* unregister_connection for every expired connection, and sleep(5); the
\* close of a socket that is gone may raise, which skips the unregister
H_Sweep(raises) ==
    /\ hpc = "sleeping"
    /\ wake <= now
    /\ LET to_close == {c \in DOMAIN last_activity : Expired(c)}
           closed == {c \in to_close : sock[c] = "open" \/ ~raises}
       IN /\ sock' = [c \in Conns |->
                         IF c \in to_close /\ sock[c] = "open" THEN "closed" ELSE sock[c]]
          /\ closeCode' = [c \in Conns |->
                              IF c \in to_close /\ sock[c] = "open"
                              THEN WS_1000_NORMAL_CLOSURE ELSE closeCode[c]]
          /\ last_activity' = [c \in (DOMAIN last_activity) \ closed |-> last_activity[c]]
    /\ wake' = now + SweepInterval
    /\ UNCHANGED <<pc, frames, pings, now, hpc, quietSince, notHb>>
    /\ UNCHANGED <<tokVars, lockVars, callVars>>

\* a second passes, once every task that can run has run
Tick ==
    /\ now < MaxTime
    /\ ~(hpc = "sleeping" /\ wake <= now)
    /\ \A c \in Conns :
          /\ pc[c] # "hb_accept"
          /\ ~(pc[c] = "hb_loop" /\ sock[c] \in {"dead", "closed"})
    /\ now' = now + 1
    /\ UNCHANGED <<clientVars, last_activity, hpc, wake, quietSince, notClient>>
    /\ UNCHANGED <<tokVars, lockVars, callVars>>

NextHeartbeat ==
    \/ \E c \in FirstConn : H_Connect(c)
    \/ \E c \in FirstConn : H_Accept(c)
    \/ \E c \in FirstConn, m \in HbInbound : H_Receive(c, m)
    \/ \E c \in FirstConn : H_Closed(c)
    \/ \E c \in FirstConn : ClientGone(c)
    \/ \E raises \in BOOLEAN : H_Sweep(raises)
    \/ Tick

SpecHeartbeat == Init /\ [][NextHeartbeat]_vars

Words == {"Bearer ", "x", "y"}
RECURSIVE TextsUpTo(_)
TextsUpTo(n) ==
    IF n = 0 THEN {<<>>}
    ELSE TextsUpTo(n - 1) \cup {Append(t, w) : t \in TextsUpTo(n - 1), w \in Words}
\* the handshakes a client can send: each of the three places carries a
\* text or nothing
Handshakes ==
    [query : {Absent} \cup {Text(t) : t \in TextsUpTo(1)},
     cookie : {Absent} \cup {Text(t) : t \in TextsUpTo(1)},
     authorization : {Absent} \cup {Text(t) : t \in TextsUpTo(MaxHeaderWords)}]

\* auth_header.startswith("Bearer ")
StartsWithBearer(t) == t # <<>> /\ t[1] = "Bearer "
\* auth_header.replace("Bearer ", ""): every occurrence goes
ReplaceBearer(t) == SelectSeq(t, LAMBDA w : w # "Bearer ")

\* get_token_from_websocket(websocket)
get_token_from_websocket(h) ==
    IF Truthy(h.query) THEN h.query
    ELSE IF Truthy(h.cookie) THEN h.cookie
    ELSE IF Truthy(h.authorization) /\ StartsWithBearer(h.authorization.s)
         THEN Text(ReplaceBearer(h.authorization.s))
    ELSE Absent

\* authenticate_websocket up to "if not token": the token that goes on to
\* decode_jwt_token, or the failure
T_Authenticate ==
    /\ token.state = "not_read"
    /\ LET tok == get_token_from_websocket(handshake)
       IN token' = IF Truthy(tok) THEN [state |-> "token", s |-> tok.s]
                   ELSE [state |-> "failed", s |-> <<>>]
    /\ UNCHANGED <<handshake, wsVars, cmVars, raised, clientVars, redisVars, workerVars,
                   bridgeVars, castVars, hbVars, lockVars, callVars>>

InitToken ==
    /\ InitQuiet
    /\ recent = [k \in RecentKeys |-> <<>>]
    /\ appended = [k \in RecentKeys |-> <<>>]
    /\ published = <<>>
    /\ nextEvent = 1
    /\ handshake \in Handshakes
    /\ token = NotRead

NextToken == T_Authenticate

SpecToken == InitToken /\ [][NextToken]_vars

\* the credential an Authorization header carries: what follows its
\* "Bearer " prefix
BearerCredential(a) ==
    IF a.present /\ StartsWithBearer(a.s) THEN Text(Tail(a.s)) ELSE Absent
\* the first non-empty one of the three credentials, in the stated order
FirstCredential(h) ==
    IF Truthy(h.query) THEN h.query
    ELSE IF Truthy(h.cookie) THEN h.cookie
    ELSE IF Truthy(BearerCredential(h.authorization)) THEN BearerCredential(h.authorization)
    ELSE Absent

\* C21: once the handshake has been read, the credential that goes on to be
\* decoded is the first non-empty one of the query parameter token, the
\* cookie access_token and what follows the Bearer prefix of the
\* Authorization header, in that order, and authentication has failed
\* exactly when none of them is present.
C21_FirstCredentialUsed ==
    token.state # "not_read" =>
       IF Truthy(FirstCredential(handshake))
       THEN token = [state |-> "token", s |-> FirstCredential(handshake).s]
       ELSE token.state = "failed"

\* ------------------------------- ConnectionManager: the calls and the lock
notLock == <<wsVars, raised, clientVars, redisVars, workerVars, bridgeVars, castVars,
             hbVars, tokVars, callVars>>
SetTask(t, r) == ltask' = [ltask EXCEPT ![t] = r]
\* Lock.release(): the first waiter, if any, is woken and has the lock
Release(l) ==
    IF l.waiters = <<>> THEN NoLock
    ELSE [holder |-> Head(l.waiters), waiters |-> Tail(l.waiters)]
\* broadcast_file_update leaves "async with self.lock" before its send loop
HoldsLockWhileSending_Yes == TRUE
HoldsLockWhileSending == FALSE

\* a call of connect_file, disconnect or broadcast_file_update begins (as the
\* lowest free task, the tasks being alike) and runs to its first await;
\* broadcast returns at once without subscribers
L_Call(t, kind, c) ==
    /\ ltask[t].pc = "idle"
    /\ \A u \in Tasks : u < t => ltask[u].pc # "idle"
    /\ kind = "broadcast" => 1 \in DOMAIN file_connections
    /\ SetTask(t, [IdleTask EXCEPT !.kind = kind, !.c = c,
                      !.pc = IF kind = "connect" THEN "accept" ELSE "acquire",
                      !.op = IF kind = "broadcast" THEN "copy" ELSE kind])
    /\ UNCHANGED <<lock, cmVars, notLock>>

\* await websocket.accept() returns
L_Accept(t) ==
    /\ ltask[t].pc = "accept"
    /\ SetTask(t, [ltask[t] EXCEPT !.pc = "acquire"])
    /\ UNCHANGED <<lock, cmVars, notLock>>

\* async with self.lock: Lock.acquire() takes a free lock without
\* suspending, and otherwise queues the caller and suspends it
L_Acquire(t) ==
    /\ ltask[t].pc = "acquire"
    /\ IF lock = NoLock
       THEN /\ lock' = [lock EXCEPT !.holder = t]
            /\ SetTask(t, [ltask[t] EXCEPT !.pc = "locked"])
       ELSE /\ lock' = [lock EXCEPT !.waiters = Append(@, t)]
            /\ SetTask(t, [ltask[t] EXCEPT !.pc = "wait"])
    /\ UNCHANGED <<cmVars, notLock>>

\* the waiter that release() woke runs again
L_Granted(t) ==
    /\ ltask[t].pc = "wait"
    /\ lock.holder = t
    /\ SetTask(t, [ltask[t] EXCEPT !.pc = "locked"])
    /\ UNCHANGED <<lock, cmVars, notLock>>

\* the block under the lock, which has no await, and the end of the block
L_Body(t) ==
    /\ ltask[t].pc = "locked"
    /\ LET k == ltask[t]
       IN CASE k.op = "connect" ->
                  /\ SetCmReg(CmConnect(CmReg, k.c, "file", 1, Owner("file", 1)))
                  /\ SetTask(t, IdleTask)
                  /\ lock' = Release(lock)
            [] k.op = "disconnect" ->
                  /\ SetCmReg(CmDisconnect(CmReg, k.c))
                  /\ IF k.kind = "broadcast"
                     THEN /\ SetTask(t, IF k.disc = {} THEN IdleTask
                                        ELSE [k EXCEPT !.pc = "cleanup"])
                          /\ lock' = IF HoldsLockWhileSending /\ k.disc # {} THEN lock
                                     ELSE Release(lock)
                     ELSE /\ SetTask(t, IdleTask)
                          /\ lock' = Release(lock)
            [] OTHER ->
                  /\ UNCHANGED cmVars
                  /\ LET ws == Get(file_connections, 1, {})
                     IN /\ SetTask(t, IF ws = {} THEN IdleTask
                                      ELSE [k EXCEPT !.pc = "send", !.subs = ws])
                        /\ lock' = IF HoldsLockWhileSending /\ ws # {} THEN lock
                                   ELSE Release(lock)
    /\ UNCHANGED notLock

\* one await websocket.send_text of the loop, which returns or raises
L_Send(t, w, ok) ==
    /\ ltask[t].pc = "send"
    /\ w \in ltask[t].subs
    /\ LET k == [ltask[t] EXCEPT !.subs = @ \ {w},
                                 !.disc = IF ok THEN @ ELSE @ \cup {w}]
       IN /\ SetTask(t, IF k.subs # {} THEN k
                        ELSE IF k.disc # {} THEN [k EXCEPT !.pc = "cleanup"]
                        ELSE IdleTask)
          /\ lock' = IF HoldsLockWhileSending /\ k.subs = {} /\ k.disc = {}
                     THEN Release(lock) ELSE lock
    /\ UNCHANGED <<cmVars, notLock>>

\* for ws in disconnected: await self.disconnect(ws), up to its lock
L_Cleanup(t, w) ==
    /\ ltask[t].pc = "cleanup"
    /\ w \in ltask[t].disc
    /\ SetTask(t, [ltask[t] EXCEPT !.disc = @ \ {w}, !.c = w, !.op = "disconnect",
                                   !.pc = "acquire"])
    /\ UNCHANGED <<lock, cmVars, notLock>>

\* what the event loop does for a call that is under way
L_Step(t) ==
    \/ L_Accept(t)
    \/ L_Acquire(t)
    \/ L_Granted(t)
    \/ L_Body(t)
    \/ \E w \in Conns, ok \in BOOLEAN : L_Send(t, w, ok)
    \/ \E w \in Conns : L_Cleanup(t, w)

NextLock ==
    \/ \E t \in Tasks, kind \in {"connect", "disconnect", "broadcast"}, c \in Conns :
           L_Call(t, kind, c)
    \/ \E t \in Tasks : L_Step(t)

SpecLock == Init /\ [][NextLock]_vars
\* the event loop runs every call that can go on
SpecLockLive == SpecLock /\ \A t \in Tasks : WF_vars(L_Step(t))

Suspended == {"accept", "wait", "send", "cleanup"}
\* C22: ConnectionManager never holds its lock at a suspension point (the
\* accept, a send, the wait for the lock), never acquires it while holding
\* it, and every call that waits for the lock gets it.
C22_LockNeverHeldAcrossAwait ==
    /\ [](\A t \in Tasks : lock.holder = t => ltask[t].pc \notin Suspended \/ ltask[t].pc = "wait")
    /\ [](\A t \in Tasks : ltask[t].pc = "acquire" => lock.holder # t)
    /\ [](\A t \in Tasks : \A i \in 1..Len(lock.waiters) : lock.waiters[i] = t => lock.holder # t)
    /\ \A t \in Tasks : (ltask[t].pc \in {"acquire", "wait"}) ~> (ltask[t].pc = "locked")
\* one call waits for the lock while a broadcast, its sends done, holds it
\* to drop a connection whose send failed
C22_Witness ==
    \E t, u \in Tasks :
       /\ ltask[t].pc = "wait" /\ lock.holder = u /\ ltask[u].pc = "locked"
       /\ ltask[u].kind = "broadcast" /\ ltask[u].op = "disconnect"

\* ------------------------------------ the handlers alone, and unsubscribe
\* the connection handlers of both families with no event published, and
\* WebSocketManager.unsubscribe, which no endpoint calls, called directly
NextTopics ==
    \/ \E c \in Conns, ep \in Endpoints, cls \in Classes, r \in Res, tok \in Tokens :
           ClientConnect(c, ep, cls, r, tok)
    \/ \E c \in Conns : ClientGone(c)
    \/ \E c \in Conns : A_Auth(c)
    \/ \E c \in Conns : A_Authz(c)
    \/ \E c \in Conns : A_RejectAccept(c)
    \/ \E c \in Conns : A_RejectClose(c)
    \/ \E c \in Conns : A_Accept(c)
    \/ \E c \in Conns : A_Register(c)
    \/ \E c \in Conns, ok \in BOOLEAN : A_ReplayRead(c, ok)
    \/ \E c \in Conns, m \in Inbound : A_Receive(c, m)
    \/ \E c \in Conns : A_Closed(c)
    \/ \E c \in Conns : B_Verify(c)
    \/ \E c \in Conns : B_Accept(c)
    \/ \E c \in Conns : B_Register(c)
    \/ \E c \in Conns : B_Status(c)
    \/ \E c \in Conns : B_Closed(c)
    \/ \E c \in Conns, t \in Topics : MgrUnsubscribe(c, t)

SpecTopics == Init /\ [][NextTopics]_vars

\* C23: no topic of either registry maps to an empty subscriber set: the
\* unsubscribe or disconnect that removes a topic's last subscriber deletes
\* the topic's key in the same step.
C23_NoEmptyTopic ==
    /\ \A t \in DOMAIN topic_subscribers : topic_subscribers[t] # {}
    /\ \A r \in DOMAIN file_connections : file_connections[r] # {}
    /\ \A r \in DOMAIN query_connections : query_connections[r] # {}
\* the last subscriber of a topic has been removed in each registry, one by
\* unsubscribe while its handler runs and one by its handler's disconnect
C23_Witness ==
    \E c, d \in Conns :
        /\ req[c].ep = "ws" /\ pc[c] = "loop" /\ HasKind(c, "connection_established")
        /\ c \in active_connections /\ connection_topics[c] = {}
        /\ DOMAIN topic_subscribers = {}
        /\ req[d].ep = "cm" /\ pc[d] = "done" /\ HasKind(d, "connection_established")
        /\ DOMAIN file_connections = {} /\ DOMAIN query_connections = {}

\* ---------------------- WebSocketManager's methods and what they return

\* await ws_manager.subscribe(connection_id, topic)
CallSubscribe(c, t) ==
    /\ SetWsReg(WsSubscribe(WsReg, c, t))
    /\ raised' = (raised \/ WsSubscribeRaises(WsReg, c))
    /\ IF WsSubscribeRaises(WsReg, c) THEN UNCHANGED returned
       ELSE returned' = [op |-> "subscribe", ok |-> c \in active_connections, count |-> 0]
    /\ UNCHANGED <<notMgr, hbVars, tokVars, lockVars>>

\* await ws_manager.unsubscribe(connection_id, topic)
CallUnsubscribe(c, t) ==
    /\ SetWsReg(WsUnsubscribe(WsReg, c, t))
    /\ returned' = [op |-> "unsubscribe", ok |-> c \in active_connections, count |-> 0]
    /\ UNCHANGED <<raised, notMgr, hbVars, tokVars, lockVars>>

\* await ws_manager.send_message(connection_id, message); sent says whether
\* websocket.send_text returns; when it raises, _handle_connection_error
CallSendMessage(c, sent) ==
    /\ SetWsReg(IF c \in active_connections /\ ~sent THEN WsDisconnect(WsReg, c)
                ELSE WsReg)
    /\ returned' = [op |-> "send_message", ok |-> c \in active_connections /\ sent,
                    count |-> 0]
    /\ UNCHANGED <<raised, notMgr, hbVars, tokVars, lockVars>>

NextCalls ==
    \/ \E c \in Conns, u \in Users \cup {None} : MgrConnect(c, u)
    \/ \E c \in Conns : MgrDisconnect(c)
    \/ \E c \in Conns, t \in Topics : CallSubscribe(c, t)
    \/ \E c \in Conns, t \in Topics : CallUnsubscribe(c, t)
    \/ \E c \in Conns, sent \in BOOLEAN : CallSendMessage(c, sent)

SpecCalls == Init /\ [][NextCalls]_vars

\* C24: subscribe, unsubscribe and send_message called with a connection id
\* that is not registered return False, raise nothing and leave every index
\* of the registry unchanged.
C24_UnknownIdIsNoOp ==
    [][\A c \in Conns :
          (/\ c \notin active_connections
           /\ \/ \E t \in Topics : CallSubscribe(c, t) \/ CallUnsubscribe(c, t)
              \/ \E sent \in BOOLEAN : CallSendMessage(c, sent))
          => /\ ~returned'.ok
             /\ ~raised'
             /\ UNCHANGED wsVars]_vars
\* subscribe has returned False, as it does only for an unregistered id,
\* while a registered connection holds a subscription
C24_Witness ==
    /\ returned.op = "subscribe" /\ ~returned.ok
    /\ \E d \in Conns, t \in Topics :
          d \in active_connections /\ t \in connection_topics[d]

\* the events appended to buffer k after event e
AppendedSince(k, e) == {i \in 1..Len(appended[k]) : appended[k][i] > e}
WasAppended(cls, r, e) ==
    \E i \in 1..Len(appended[RecentKey(cls, r)]) : appended[RecentKey(cls, r)][i] = e
C27_SweepSparesActive ==
    [][\A c \in Conns :
          (/\ \E raises \in BOOLEAN : H_Sweep(raises)
           /\ pc[c] = "hb_loop" /\ sock[c] = "open"
           /\ now - quietSince[c] <= timeout_seconds)
          => /\ sock'[c] = "open"
             /\ c \in DOMAIN last_activity'
             /\ pc'[c] = "hb_loop"]_vars
\* a connection that sent a ping is open after a round of check_timeouts
\* that ran later than the timeout after it was accepted
C27_Witness ==
    \E c \in Conns :
        /\ pc[c] = "hb_loop" /\ sock[c] = "open"
        /\ HasKind(c, "pong")
        /\ now > timeout_seconds
        /\ wake = now + SweepInterval

\* C28: in WebSocketManager, between any two of its calls (connect with an
\* id that is not registered, subscribe, unsubscribe, disconnect, send_message
\* whose send fails): active_connections and connection_topics have the same
\* keys; every key of connection_to_user is an active connection; c is in
\* user_connections[u] if and only if connection_to_user[c] = u; and no user
\* maps to an empty set.
C28_IndexesAgree ==
    /\ DOMAIN connection_topics = active_connections
    /\ DOMAIN connection_to_user \subseteq active_connections
    /\ \A c \in Conns, u \in Users :
          (u \in DOMAIN user_connections /\ c \in user_connections[u])
             <=> (c \in DOMAIN connection_to_user /\ connection_to_user[c] = u)
    /\ \A u \in DOMAIN user_connections : user_connections[u] # {}
\* a failed send has removed one of a user's two connections; the other one
\* is registered for the user and subscribed
C28_Witness ==
    \E c, d \in Conns, u \in Users :
        /\ returned.op = "send_message" /\ ~returned.ok
        /\ d \notin active_connections
        /\ user_connections = [x \in {u} |-> {c}]
        /\ connection_topics[c] # {}

\* ------------------------------------- connect for an id already in use
\* await ws_manager.connect(websocket, connection_id, user_id) with the id of
\* a registered connection, once the new socket's accept has returned
MgrReconnect(c, u) ==
    /\ c \in active_connections
    /\ SetWsReg(WsConnect(WsReg, c, u))
    /\ UNCHANGED <<raised, notMgr, hbVars, tokVars, lockVars, callVars>>

NextReconnect ==
    \/ NextCalls
    \/ \E c \in Conns, u \in Users \cup {None} : MgrReconnect(c, u)

SpecReconnect == Init /\ [][NextReconnect]_vars

\* C29: connect for a connection id that is already registered leaves no
\* stale entry: a registered id is in the subscriber sets of the topics of
\* connection_topics[id] only and in the connection set of its own user only,
\* and an id that has been disconnected is in no subscriber set and in no
\* user's connection set.
C29_ReconnectLeavesNoStale ==
    \A c \in Conns :
       /\ \A t \in DOMAIN topic_subscribers :
             c \in topic_subscribers[t]
                => c \in active_connections /\ t \in connection_topics[c]
       /\ \A u \in DOMAIN user_connections :
             c \in user_connections[u]
                => c \in active_connections /\ Get(connection_to_user, c, None) = u

\* C30: a failure of the read of the replay buffer, or of the send of a
\* replayed frame, is not raised into the connection handler: each frame
\* sent is the first entry not yet sent of what was read, a failure sends
\* nothing more and drops the entries that remain, and the handler is then
\* in its receive loop with the connection registered as before.
C30_ReplayFailureContained ==
    [][\A c \in Conns :
          /\ A_ReplayRead(c, FALSE) =>
                /\ pc'[c] = "loop" /\ updates'[c] = <<>>
                /\ frames'[c] = frames[c]
                /\ ~raised'
                /\ UNCHANGED cmVars /\ c \in DOMAIN connection_info'
          /\ (A_ReplaySend(c) /\ sock[c] = "open") =>
                /\ ReplayEvs(frames'[c]) = Append(ReplayEvs(frames[c]), Head(updates[c]))
                /\ updates'[c] = Tail(updates[c])
          /\ (A_ReplaySend(c) /\ sock[c] # "open") =>
                /\ pc'[c] = "loop" /\ updates'[c] = <<>>
                /\ frames'[c] = frames[c]
                /\ ~raised'
                /\ UNCHANGED cmVars /\ c \in DOMAIN connection_info'
      ]_vars
\* a client went away during its replay: some entries of the buffer were
\* sent, the others were not, and its handler is in the receive loop with
\* the connection registered
C30_Witness ==
    \E c \in Conns :
        /\ pc[c] = "loop" /\ sock[c] = "dead"
        /\ c \in DOMAIN connection_info
        /\ Len(ReplayEvs(frames[c])) \in 1..(Prefilled - 1)
        /\ updates[c] = <<>>
====
